---- MODULE Spec2Model ----
(***************************************************************************)
(* Wild-Fire-Analysis: the meteorological data collection notebook         *)
(* (build_request_param and its three campaign loops) and the merging      *)
(* notebook (02.2_merging_data).                                           *)
(*                                                                         *)
(* The three campaigns of the collection notebook share no state but df    *)
(* and filtered_df: each creates its own accumulator, runs its loop and    *)
(* exports it.  A behaviour of Spec loads df and runs the cells of one     *)
(* campaign, which Init chooses.  A behaviour of MergeSpec runs the cells  *)
(* of the merging notebook over four source tables which MergeInit         *)
(* chooses.                                                                *)
(***************************************************************************)
EXTENDS Integers, Sequences, FiniteSets, TLC

VARIABLES
    campaign,      \* which campaign's cells run: "basic", "extended", "historical"
    df,            \* the wildfire table (read_csv), a sequence of rows
    filtered_df,   \* the filtered subset
    nasa_df,       \* the campaign's accumulator (nasa_df, nasa_big_fire_df, nasa_last_180_prec_df)
    i,             \* position of the for loop in the campaign's record sequence
    pc,            \* "filter", "loop", "blocked", "done", "raised"
    exc,           \* the exception that ended the cell, "none" when none
    inflight,      \* the outstanding requests.get call: <<>> or <<request>>
    requests,      \* every request handed to requests.get, in order
    responses,     \* every outcome requests.get produced, in order
    files,         \* every table written by to_csv, in order
    wildfires, landcover, historical_precip, weather,   \* the merging notebook's inputs
    data, data1, data2, master_dataset,                 \* filtered master path
    data_1, data_2, master_dataset_allfires,            \* all-fires master path
    mpc,           \* the merging notebook's next cell
    mexc,          \* the exception that ended the merging notebook, "none" when none
    exported       \* every table the merging notebook wrote, in order

cvars == <<campaign, df, filtered_df, nasa_df, i, pc, exc, inflight, requests,
           responses, files>>
mvars == <<wildfires, landcover, historical_precip, weather, data, data1, data2,
           master_dataset, data_1, data_2, master_dataset_allfires, mpc, mexc,
           exported>>
vars == <<cvars, mvars>>

(***************************************************************************)
(* Bounds                                                                  *)
(***************************************************************************)
MaxRecords == 2      \* rows of the wildfire table
MaxRows == 2         \* data rows of one response
MaxId == 2           \* numeric fire identifiers of the merging notebook's tables

(***************************************************************************)
(* Timestamps (pandas Timestamp / NaT), hour resolution                    *)
(***************************************************************************)
NaT == [isnat |-> TRUE, y |-> 0, m |-> 0, d |-> 0, h |-> 0]

TS(y, m, d, h) == [isnat |-> FALSE, y |-> y, m |-> m, d |-> d, h |-> h]

IsLeap(y) == (y % 4 = 0 /\ y % 100 # 0) \/ y % 400 = 0

DaysInMonth(y, m) ==
    IF m = 2 THEN (IF IsLeap(y) THEN 29 ELSE 28)
    ELSE IF m \in {4, 6, 9, 11} THEN 30 ELSE 31

RECURSIVE DaysBeforeMonth(_, _)
DaysBeforeMonth(y, m) ==
    IF m = 1 THEN 0 ELSE DaysBeforeMonth(y, m - 1) + DaysInMonth(y, m - 1)

RECURSIVE DaysBeforeYear(_)
DaysBeforeYear(y) ==
    IF y <= 2019 THEN 0
    ELSE DaysBeforeYear(y - 1) + (IF IsLeap(y - 1) THEN 366 ELSE 365)

\* days since January 1st, 2019
DayNumber(t) == DaysBeforeYear(t.y) + DaysBeforeMonth(t.y, t.m) + (t.d - 1)

\* hours since the start of 2019
HourNumber(t) == DayNumber(t) * 24 + t.h

\* a Timedelta: NaT when either operand is NaT, else the difference in hours
NaTdelta == [isnat |-> TRUE, hours |-> 0]

Timedelta(hours) == [isnat |-> FALSE, hours |-> hours]

ts_sub(a, b) ==
    IF a.isnat \/ b.isnat THEN NaTdelta
    ELSE Timedelta(HourNumber(a) - HourNumber(b))

\* timedelta(days=1)
one_day == Timedelta(24)

timedelta_gt_or_equal(a, b) == ~a.isnat /\ a.hours >= b.hours

\* series > timedelta: a comparison with NaT is False
timedelta_gt(a, b) == ~a.isnat /\ a.hours > b.hours

(***************************************************************************)
(* Tables (pandas DataFrame) and the value None                            *)
(***************************************************************************)
\* index: the column set as the row key, "" for the default RangeIndex
DataFrame(columns, rows) ==
    [kind |-> "DataFrame", index |-> "", columns |-> columns, rows |-> rows]

\* pd.DataFrame()
EmptyDataFrame == DataFrame({}, <<>>)

None == [kind |-> "None", index |-> "", columns |-> {}, rows |-> <<>>]

(***************************************************************************)
(* The wildfire table                                                      *)
(***************************************************************************)
\* DailyAcres, a float in tenths of an acre, or NaN
NaN == [isnan |-> TRUE, val |-> 0]

Acres(tenths) == [isnan |-> FALSE, val |-> tenths]

\* series > 1: a comparison with NaN is False
acres_gt_1(a) == ~a.isnan /\ a.val > 10

Incident(id, lat, long, disc, ctrl, acres) ==
    [id |-> id, InitialLatitude |-> lat, InitialLongitude |-> long,
     FireDiscoveryDateTime |-> disc, ControlDateTime |-> ctrl, DailyAcres |-> acres]

\* The rows a wildfire table is drawn from: ids are unique, dates are parsed
\* with errors='coerce' (a value that does not parse is NaT).
Incidents ==
    << Incident(1, 40, -115, TS(2020, 7, 19, 23), TS(2020, 9, 2, 15), Acres(59859)),
       Incident(2, 41, -116, TS(2020, 8, 31, 10), TS(2020, 9, 1, 10), Acres(25)),
       Incident(3, 42, -117, TS(2021, 3, 31, 8), TS(2021, 4, 1, 9), Acres(11)),
       Incident(4, 43, -118, TS(2020, 8, 30, 0), NaT, Acres(100)),
       Incident(5, 44, -119, NaT, TS(2021, 1, 5, 0), Acres(100)),
       Incident(6, 45, -120, TS(2020, 2, 29, 12), TS(2020, 3, 5, 12), Acres(10)),
       Incident(0, 46, -121, TS(2020, 1, 15, 6), TS(2020, 1, 20, 6), NaN) >>

\* read_csv gives the rows the index labels 0, 1, 2, ...
read_csv(rows) ==
    [k \in 1..Len(rows) |->
        [index |-> k - 1, id |-> rows[k].id,
         InitialLatitude |-> rows[k].InitialLatitude,
         InitialLongitude |-> rows[k].InitialLongitude,
         FireDiscoveryDateTime |-> rows[k].FireDiscoveryDateTime,
         ControlDateTime |-> rows[k].ControlDateTime,
         DailyAcres |-> rows[k].DailyAcres]]

WildfireTables ==
    { read_csv([k \in DOMAIN s |-> Incidents[s[k]]]) :
        s \in { t \in UNION { [1..n -> 1..Len(Incidents)] : n \in 0..MaxRecords } :
                  \A a, b \in DOMAIN t : a # b => t[a] # t[b] } }

(***************************************************************************)
(* RecordFilter: the filtered_df cell                                      *)
(***************************************************************************)
big_fires(table) == SelectSeq(table, LAMBDA r : acres_gt_1(r.DailyAcres))

long_fires(table) ==
    SelectSeq(table, LAMBDA r :
        timedelta_gt(ts_sub(r.ControlDateTime, r.FireDiscoveryDateTime), one_day))

filter_fires(table) == long_fires(big_fires(table))

(***************************************************************************)
(* PointQueryBuilder: dates of a request                                   *)
(***************************************************************************)
Min(a, b) == IF a <= b THEN a ELSE b

\* the Timestamp n days before t
RECURSIVE days_before(_, _)
days_before(t, n) ==
    IF n < t.d THEN [t EXCEPT !.d = t.d - n]
    ELSE IF t.m > 1
         THEN days_before([t EXCEPT !.m = t.m - 1, !.d = DaysInMonth(t.y, t.m - 1)],
                          n - t.d)
    ELSE days_before([t EXCEPT !.y = t.y - 1, !.m = 12, !.d = 31], n - t.d)

minus_months_as_30_days(t, months) == days_before(t, 30 * months)

\* t - pd.tseries.offsets.DateOffset(months=months): the month moves back,
\* the day is clipped to the length of the month reached, the time is kept
minus_months(t, months) ==
    LET total == t.y * 12 + (t.m - 1) - months
        y == total \div 12
        m == (total % 12) + 1
    IN  [t EXCEPT !.y = y, !.m = m, !.d = Min(t.d, DaysInMonth(y, m))]

\* t.strftime(date_filter): the digits of the rendered date, read as a number
strftime(t, date_filter) ==
    IF date_filter = "%Y%m%d" THEN t.y * 10000 + t.m * 100 + t.d
    ELSE t.y

Campaigns == {"basic", "extended", "historical"}

\* the record sequence a campaign's loop iterates
Records(c, all, filtered) == IF c = "basic" THEN all ELSE filtered

\* the id argument of a campaign's call: the index label in the basic loop,
\* the 'id' value in the other two
id_arg(c, r) == IF c = "basic" THEN r.index ELSE r.id

\* the arguments a campaign's loop passes to build_request_param for row r
call_args(c, r) ==
    [id |-> id_arg(c, r),
     lat |-> r.InitialLatitude,
     long |-> r.InitialLongitude,
     start_date |-> IF c = "historical"
                    THEN (IF r.FireDiscoveryDateTime.isnat THEN NaT
                          ELSE minus_months(r.FireDiscoveryDateTime, 6))
                    ELSE r.FireDiscoveryDateTime,
     end_date |-> IF c = "historical" THEN r.FireDiscoveryDateTime
                  ELSE r.ControlDateTime,
     date_filter |-> IF c = "historical" THEN "%Y" ELSE "%Y%m%d"]

\* params: what is appended to base_uri, with the arguments it was built from
build_params(a) ==
    [id |-> a.id, latitude |-> a.lat, longitude |-> a.long,
     start_date |-> a.start_date, end_date |-> a.end_date,
     start |-> strftime(a.start_date, a.date_filter),
     end |-> strftime(a.end_date, a.date_filter)]

(***************************************************************************)
(* RemoteFetcher and ResultAccumulator: build_request_param                *)
(***************************************************************************)
\* What requests.get can produce for one request:
\*   data(n)          a body with the marker and a table of n data rows
\*   no_marker        a body without '-END HEADER-'
\*   empty_segment    a body with nothing after the marker
\*   malformed        a body whose segment after the marker is not a table
\*   requests.exceptions.ConnectionError   the failure requests raises
\*   ConnectionError  the builtin exception the except clause names
Outcome(kind, n) == [kind |-> kind, n |-> n]

Outcomes ==
    { Outcome("data", n) : n \in 0..MaxRows } \cup
    { Outcome(k, 0) : k \in {"no_marker", "empty_segment", "malformed",
                             "requests.exceptions.ConnectionError",
                             "ConnectionError"} }

\* response_df with the LAT, LONG and PID columns added
response_df(id, lat, long, n) ==
    DataFrame({"DY", "LAT", "LONG", "PID"},
              [k \in 1..n |-> [DY |-> k, LAT |-> lat, LONG |-> long, PID |-> id]])

pd_concat_reversed(a, b) ==
    IF a.kind = "None" THEN b
    ELSE DataFrame(a.columns \cup b.columns, b.rows \o a.rows)

\* pd.concat([a, b]): None objects are dropped silently
pd_concat(a, b) ==
    IF a.kind = "None" THEN b
    ELSE DataFrame(a.columns \cup b.columns, a.rows \o b.rows)

\* The try block of build_request_param: what the call returns (ret) or
\* raises (exc) once requests.get has produced outcome o.
build_request_param(id, lat, long, result_df, o) ==
    CASE o.kind = "requests.exceptions.ConnectionError" ->
            [exc |-> "requests.exceptions.ConnectionError", ret |-> None]
      [] o.kind = "ConnectionError" ->
            \* caught: the message is printed and the function ends without a return
            [exc |-> "none", ret |-> None]
      [] o.kind = "no_marker" ->
            [exc |-> "none", ret |-> result_df]
      [] o.kind = "empty_segment" ->
            [exc |-> "EmptyDataError", ret |-> None]
      [] o.kind = "malformed" ->
            [exc |-> "ParserError", ret |-> None]
      [] o.kind = "data" ->
            [exc |-> "none",
             ret |-> pd_concat(result_df, response_df(id, lat, long, o.n))]

(***************************************************************************)
(* BatchCollector: the cells of one campaign                               *)
(***************************************************************************)
Recs == Records(campaign, df, filtered_df)

MergeIdle ==
    /\ wildfires = EmptyDataFrame /\ landcover = EmptyDataFrame
    /\ historical_precip = EmptyDataFrame /\ weather = EmptyDataFrame
    /\ data = None /\ data1 = None /\ data2 = None /\ master_dataset = None
    /\ data_1 = None /\ data_2 = None /\ master_dataset_allfires = None
    /\ mpc = "idle" /\ mexc = "none" /\ exported = <<>>

CollectInit ==
    /\ campaign \in Campaigns
    /\ df \in WildfireTables
    /\ filtered_df = <<>>
    /\ nasa_df = EmptyDataFrame
    /\ i = 1
    /\ pc = IF campaign = "basic" THEN "loop" ELSE "filter"
    /\ exc = "none"
    /\ inflight = <<>>
    /\ requests = <<>>
    /\ responses = <<>>
    /\ files = <<>>

Init == CollectInit /\ MergeIdle

\* the filtered_df cell
FilterFires ==
    /\ pc = "filter"
    /\ filtered_df' = filter_fires(df)
    /\ pc' = "loop"
    /\ UNCHANGED <<campaign, df, nasa_df, i, exc, inflight, requests, responses, files>>
    /\ UNCHANGED mvars

\* build_request_param up to requests.get: the parameters are formatted
\* (NaT.strftime raises ValueError, outside the try) and the call is issued
Call ==
    /\ pc = "loop" /\ inflight = <<>> /\ i <= Len(Recs)
    /\ LET a == call_args(campaign, Recs[i]) IN
         IF a.start_date.isnat \/ a.end_date.isnat
         THEN /\ pc' = "raised" /\ exc' = "ValueError"
              /\ UNCHANGED <<inflight, requests>>
         ELSE /\ inflight' = <<build_params(a)>>
              /\ requests' = Append(requests, build_params(a))
              /\ UNCHANGED <<pc, exc>>
    /\ UNCHANGED <<campaign, df, filtered_df, nasa_df, i, responses, files>>
    /\ UNCHANGED mvars

\* requests.get ends with outcome o; the rest of build_request_param runs and
\* the loop assigns what it returns to the accumulator
Respond(o) ==
    /\ pc = "loop" /\ inflight # <<>>
    /\ LET a == call_args(campaign, Recs[i])
           r == build_request_param(a.id, a.lat, a.long, nasa_df, o)
       IN  IF r.exc # "none"
           THEN /\ pc' = "raised" /\ exc' = r.exc
                /\ UNCHANGED <<nasa_df, i>>
           ELSE /\ nasa_df' = r.ret
                /\ i' = i + 1
                /\ UNCHANGED <<pc, exc>>
    /\ inflight' = <<>>
    /\ responses' = Append(responses, o)
    /\ UNCHANGED <<campaign, df, filtered_df, requests, files>>
    /\ UNCHANGED mvars

\* the to_csv cell after the loop: None has no to_csv
Export ==
    /\ pc = "loop" /\ inflight = <<>> /\ i > Len(Recs)
    /\ IF nasa_df.kind = "None"
       THEN /\ pc' = "raised" /\ exc' = "AttributeError"
            /\ UNCHANGED files
       ELSE /\ files' = Append(files, nasa_df)
            /\ pc' = "done"
            /\ UNCHANGED exc
    /\ UNCHANGED <<campaign, df, filtered_df, nasa_df, i, inflight, requests, responses>>
    /\ UNCHANGED mvars

\* requests.get is called without a timeout: when the server never answers,
\* the call never returns and the cell stays in it
Block ==
    /\ pc = "loop" /\ inflight # <<>>
    /\ pc' = "blocked"
    /\ UNCHANGED <<campaign, df, filtered_df, nasa_df, i, exc, inflight, requests,
                   responses, files>>
    /\ UNCHANGED mvars

Next ==
    \/ FilterFires
    \/ Call
    \/ \E o \in Outcomes : Respond(o)
    \/ Block
    \/ Export

Spec == Init /\ [][Next]_vars

\* The kernel runs a cell to its end and an answer that is on its way arrives:
\* every step that stays possible is eventually taken.
LiveSpec ==
    /\ Init /\ [][Next]_vars
    /\ WF_vars(FilterFires)
    /\ WF_vars(Call)
    /\ WF_vars(\E o \in Outcomes : Respond(o))
    /\ WF_vars(Export)

(***************************************************************************)
(* The merging notebook: source tables                                     *)
(*                                                                         *)
(* A table is its column names and its rows; a row holds the values of the *)
(* key columns (the identifiers the joins and the index use), the other    *)
(* cells play no part in any cell of the notebook.                         *)
(***************************************************************************)
FireIds == 1..MaxId

UniqueFireIdentifiers == {"2020-NVECFX-010145", "2020-CAKNF-000512"}

RECURSIVE SetToSeq(_)
SetToSeq(S) ==
    IF S = {} THEN <<>>
    ELSE LET x == CHOOSE x \in S : TRUE IN <<x>> \o SetToSeq(S \ {x})

\* wildfires_all.csv: the incident columns and fire_id
WildfireColumns ==
    {"UniqueFireIdentifier", "X", "Y", "ContainmentDateTime", "ControlDateTime",
     "DailyAcres", "DiscoveryAcres", "FireCause", "FireDiscoveryDateTime",
     "IncidentTypeCategory", "IncidentTypeKind", "InitialLatitude",
     "InitialLongitude", "IrwinID", "LocalIncidentIdentifier", "POOCounty",
     "POODispatchCenterID", "POOFips", "POOState", "fire_id"}

\* meteorology_historical_rain_snow_sum_6mo.csv
PrecipColumns == {"id", "UniqueFireIdentifier", "snow_sum"}

\* wildfire_weather.csv: id, the lowercase copies of the incident columns and
\* the weather columns
WeatherColumns ==
    {"id", "x", "y", "firecause", "firediscoverydatetime", "incidenttypecategory",
     "containmentdatetime", "controldatetime", "dailyacres", "discoveryacres",
     "incidenttypekind", "initiallatitude", "initiallongitude", "irwinid",
     "localincidentidentifier", "poocounty", "poodispatchcenterid", "poofips",
     "poostate", "uniquefireidentifier", "wind_speed_2m_mean",
     "wind_speed_2m_max_mean", "wind_speed_10m_mean", "wind_speed_10m_max_mean",
     "humidity_mean", "temp_2m_mean", "temp_2m", "humidity"}

\* landcover.csv
LandcoverColumns == {"fire_id", "landcover"}

\* the tables read_csv can load: every subset of the possible rows, with
\* fire_id and UniqueFireIdentifier unique in the incident table and
\* UniqueFireIdentifier unique in the precipitation table; rain_sum is a
\* column of the precipitation table, of the weather table, of both or of
\* neither
WildfireTablesAll ==
    { DataFrame(WildfireColumns, SetToSeq(S)) :
        S \in { T \in SUBSET { ("UniqueFireIdentifier" :> u) @@ ("fire_id" :> f) :
                                 u \in UniqueFireIdentifiers, f \in FireIds } :
                  \A a, b \in T : a # b => /\ a["fire_id"] # b["fire_id"]
                                           /\ a["UniqueFireIdentifier"] # b["UniqueFireIdentifier"] } }

PrecipTables ==
    { DataFrame(PrecipColumns \cup extra, SetToSeq(S)) :
        S \in { T \in SUBSET { ("id" :> f) @@ ("UniqueFireIdentifier" :> u) :
                                 u \in UniqueFireIdentifiers, f \in FireIds } :
                  \A a, b \in T : a # b =>
                        a["UniqueFireIdentifier"] # b["UniqueFireIdentifier"] },
        extra \in SUBSET {"rain_sum"} }

WeatherTables ==
    { DataFrame(WeatherColumns \cup extra, SetToSeq({ ("id" :> f) : f \in S })) :
        S \in SUBSET FireIds, extra \in SUBSET {"rain_sum"} }

LandcoverTables ==
    { DataFrame(LandcoverColumns, SetToSeq({ ("fire_id" :> f) : f \in S })) :
        S \in SUBSET FireIds }

(***************************************************************************)
(* DatasetMerger: DataFrame.merge                                          *)
(***************************************************************************)
RECURSIVE Flatten(_)
Flatten(ss) == IF ss = <<>> THEN <<>> ELSE Head(ss) \o Flatten(Tail(ss))

\* the names both sides carry, but for a key of the same name on both sides
Overlap(left, right, left_on, right_on) ==
    (left.columns \cap right.columns) \ (IF left_on = right_on THEN {left_on} ELSE {})

\* the right columns that go into the result
RightKept(right, left_on, right_on) ==
    right.columns \ (IF left_on = right_on THEN {right_on} ELSE {})

\* one merged row: the left cells under their (suffixed) names, then the right ones
MergedRow(l, r, lname, rname, rkept) ==
    LET ld == { lname[c] : c \in DOMAIN l }
        rd == { rname[c] : c \in DOMAIN r \cap rkept }
    IN  [n \in ld \cup rd |->
            IF n \in ld THEN l[CHOOSE c \in DOMAIN l : lname[c] = n]
            ELSE r[CHOOSE c \in DOMAIN r \cap rkept : rname[c] = n]]

\* the rows of the right table a left row is joined with
Matches(l, right, left_on, right_on) ==
    SelectSeq(right.rows, LAMBDA r : r[right_on] = l[left_on])

merge_how_left(left, right, left_on, right_on) ==
    LET ov == Overlap(left, right, left_on, right_on)
        rkept == RightKept(right, left_on, right_on)
        lname == [c \in left.columns |-> IF c \in ov THEN c \o "_x" ELSE c]
        rname == [c \in right.columns |-> IF c \in ov THEN c \o "_y" ELSE c]
        joined(l) ==
            LET ms == Matches(l, right, left_on, right_on) IN
            IF ms = <<>> THEN << [n \in { lname[c] : c \in DOMAIN l } |->
                                    l[CHOOSE c \in DOMAIN l : lname[c] = n]] >>
            ELSE [k \in 1..Len(ms) |-> MergedRow(l, ms[k], lname, rname, rkept)]
    IN  DataFrame({ lname[c] : c \in left.columns } \cup { rname[c] : c \in rkept },
                  Flatten([k \in 1..Len(left.rows) |-> joined(left.rows[k])]))

\* left.merge(right, left_on=left_on, right_on=right_on), how='inner': a row
\* for each pair of rows with equal keys, in the order of the left rows;
\* names on both sides get the suffixes _x and _y
merge(left, right, left_on, right_on) ==
    LET ov == Overlap(left, right, left_on, right_on)
        rkept == RightKept(right, left_on, right_on)
        lname == [c \in left.columns |-> IF c \in ov THEN c \o "_x" ELSE c]
        rname == [c \in right.columns |-> IF c \in ov THEN c \o "_y" ELSE c]
        joined(l) ==
            LET ms == Matches(l, right, left_on, right_on) IN
            [k \in 1..Len(ms) |-> MergedRow(l, ms[k], lname, rname, rkept)]
    IN  DataFrame({ lname[c] : c \in left.columns } \cup { rname[c] : c \in rkept },
                  Flatten([k \in 1..Len(left.rows) |-> joined(left.rows[k])]))

(***************************************************************************)
(* ColumnProjector: drop, set_index, to_csv                                *)
(***************************************************************************)
cols ==
    {"UniqueFireIdentifier", "X", "Y", "ContainmentDateTime", "ControlDateTime",
     "DailyAcres", "FireCause", "FireDiscoveryDateTime", "IncidentTypeCategory",
     "IncidentTypeKind", "InitialLatitude", "InitialLongitude", "IrwinID",
     "LocalIncidentIdentifier", "POOCounty", "POODispatchCenterID", "POOFips",
     "POOState", "fire_id_x", "x", "y", "firecause", "firediscoverydatetime",
     "incidenttypecategory", "containmentdatetime", "controldatetime",
     "dailyacres", "discoveryacres", "incidenttypekind", "initiallatitude",
     "initiallongitude", "rain_sum", "fire_id_y", "irwinid",
     "localincidentidentifier", "poocounty", "poodispatchcenterid", "poofips",
     "poostate", "uniquefireidentifier", "wind_speed_2m_mean",
     "wind_speed_2m_max_mean", "wind_speed_10m_mean", "wind_speed_10m_max_mean",
     "humidity_mean", "temp_2m_mean"}

Restrict(row, names) == [c \in DOMAIN row \cap names |-> row[c]]

\* table.drop(columns=names), errors='raise': KeyError when a name is not a
\* column of the table
drop(table, names) ==
    IF names \subseteq table.columns
    THEN [exc |-> "none",
          ret |-> [table EXCEPT
                     !.columns = table.columns \ names,
                     !.rows = [k \in DOMAIN table.rows |->
                                 Restrict(table.rows[k], table.columns \ names)]]]
    ELSE [exc |-> "KeyError", ret |-> None]

\* table.set_index(key, inplace=True): the column becomes the row key
set_index(table, key) ==
    IF key \in table.columns
    THEN [exc |-> "none",
          ret |-> [table EXCEPT !.index = key, !.columns = table.columns \ {key}]]
    ELSE [exc |-> "KeyError", ret |-> None]

\* table.to_csv(path, index=False): the header and the cells of the columns,
\* without the index
to_csv(table) ==
    [header |-> table.columns,
     rows |-> [k \in DOMAIN table.rows |-> Restrict(table.rows[k], table.columns)]]

(***************************************************************************)
(* The cells of the merging notebook                                       *)
(***************************************************************************)
CollectIdle ==
    /\ campaign = "basic" /\ df = <<>> /\ filtered_df = <<>>
    /\ nasa_df = EmptyDataFrame /\ i = 1 /\ pc = "idle" /\ exc = "none"
    /\ inflight = <<>> /\ requests = <<>> /\ responses = <<>> /\ files = <<>>

MergeInit ==
    /\ wildfires \in WildfireTablesAll
    /\ landcover \in LandcoverTables
    /\ historical_precip \in PrecipTables
    /\ weather \in WeatherTables
    /\ data = None /\ data1 = None /\ data2 = None /\ master_dataset = None
    /\ data_1 = None /\ data_2 = None /\ master_dataset_allfires = None
    /\ mpc = "merge_data" /\ mexc = "none" /\ exported = <<>>
    /\ CollectIdle

Inputs == <<wildfires, landcover, historical_precip, weather>>

MergeData ==
    /\ mpc = "merge_data"
    /\ data' = merge(historical_precip, wildfires,
                     "UniqueFireIdentifier", "UniqueFireIdentifier")
    /\ mpc' = "merge_data1"
    /\ UNCHANGED <<Inputs, data1, data2, master_dataset, data_1, data_2,
                   master_dataset_allfires, mexc, exported>>
    /\ UNCHANGED cvars

MergeData1 ==
    /\ mpc = "merge_data1"
    /\ data1' = merge(data, weather, "id", "id")
    /\ mpc' = "merge_data2"
    /\ UNCHANGED <<Inputs, data, data2, master_dataset, data_1, data_2,
                   master_dataset_allfires, mexc, exported>>
    /\ UNCHANGED cvars

MergeData2 ==
    /\ mpc = "merge_data2"
    /\ data2' = merge(data1, landcover, "id", "fire_id")
    /\ mpc' = "drop"
    /\ UNCHANGED <<Inputs, data, data1, master_dataset, data_1, data_2,
                   master_dataset_allfires, mexc, exported>>
    /\ UNCHANGED cvars

DropColumns ==
    /\ mpc = "drop"
    /\ LET r == drop(data2, cols) IN
         IF r.exc # "none"
         THEN /\ mpc' = "raised" /\ mexc' = r.exc /\ UNCHANGED master_dataset
         ELSE /\ master_dataset' = r.ret /\ mpc' = "set_index" /\ UNCHANGED mexc
    /\ UNCHANGED <<Inputs, data, data1, data2, data_1, data_2,
                   master_dataset_allfires, exported>>
    /\ UNCHANGED cvars

SetIndex ==
    /\ mpc = "set_index"
    /\ LET r == set_index(master_dataset, "id") IN
         IF r.exc # "none"
         THEN /\ mpc' = "raised" /\ mexc' = r.exc /\ UNCHANGED master_dataset
         ELSE /\ master_dataset' = r.ret /\ mpc' = "to_csv" /\ UNCHANGED mexc
    /\ UNCHANGED <<Inputs, data, data1, data2, data_1, data_2,
                   master_dataset_allfires, exported>>
    /\ UNCHANGED cvars

ToCsv ==
    /\ mpc = "to_csv"
    /\ exported' = Append(exported, to_csv(master_dataset))
    /\ mpc' = "merge_data_1"
    /\ UNCHANGED <<Inputs, data, data1, data2, master_dataset, data_1, data_2,
                   master_dataset_allfires, mexc>>
    /\ UNCHANGED cvars

MergeDataAll1 ==
    /\ mpc = "merge_data_1"
    /\ data_1' = merge(wildfires, weather, "fire_id", "id")
    /\ mpc' = "merge_data_2"
    /\ UNCHANGED <<Inputs, data, data1, data2, master_dataset, data_2,
                   master_dataset_allfires, mexc, exported>>
    /\ UNCHANGED cvars

MergeDataAll2 ==
    /\ mpc = "merge_data_2"
    /\ data_2' = merge(data_1, landcover, "id", "fire_id")
    /\ mpc' = "drop_allfires"
    /\ UNCHANGED <<Inputs, data, data1, data2, master_dataset, data_1,
                   master_dataset_allfires, mexc, exported>>
    /\ UNCHANGED cvars

DropColumnsAll ==
    /\ mpc = "drop_allfires"
    /\ LET r == drop(data_2, cols) IN
         IF r.exc # "none"
         THEN /\ mpc' = "raised" /\ mexc' = r.exc
              /\ UNCHANGED master_dataset_allfires
         ELSE /\ master_dataset_allfires' = r.ret /\ mpc' = "set_index_allfires"
              /\ UNCHANGED mexc
    /\ UNCHANGED <<Inputs, data, data1, data2, master_dataset, data_1, data_2,
                   exported>>
    /\ UNCHANGED cvars

SetIndexAll ==
    /\ mpc = "set_index_allfires"
    /\ LET r == set_index(master_dataset_allfires, "id") IN
         IF r.exc # "none"
         THEN /\ mpc' = "raised" /\ mexc' = r.exc
              /\ UNCHANGED master_dataset_allfires
         ELSE /\ master_dataset_allfires' = r.ret /\ mpc' = "to_csv_allfires"
              /\ UNCHANGED mexc
    /\ UNCHANGED <<Inputs, data, data1, data2, master_dataset, data_1, data_2,
                   exported>>
    /\ UNCHANGED cvars

ToCsvAll ==
    /\ mpc = "to_csv_allfires"
    /\ exported' = Append(exported, to_csv(master_dataset_allfires))
    /\ mpc' = "done"
    /\ UNCHANGED <<Inputs, data, data1, data2, master_dataset, data_1, data_2,
                   master_dataset_allfires, mexc>>
    /\ UNCHANGED cvars

MergeNext ==
    \/ MergeData
    \/ MergeData1
    \/ MergeData2
    \/ DropColumns
    \/ SetIndex
    \/ ToCsv
    \/ MergeDataAll1
    \/ MergeDataAll2
    \/ DropColumnsAll
    \/ SetIndexAll
    \/ ToCsvAll

MergeSpec == MergeInit /\ [][MergeNext]_vars

(***************************************************************************)
(* Properties of the collection notebook                                   *)
(***************************************************************************)
IsPrefix(s, t) == Len(s) <= Len(t) /\ SubSeq(t, 1, Len(s)) = s

ConnectivityFailures == {"requests.exceptions.ConnectionError", "ConnectionError"}

\* the rows the first k responses carry, each tagged as its call tags it,
\* in the order of the calls
RECURSIVE RowsOfData(_)
RowsOfData(k) ==
    IF k = 0 THEN <<>>
    ELSE LET a == call_args(campaign, Recs[k]) IN
         RowsOfData(k - 1) \o
            (IF responses[k].kind = "data"
             THEN response_df(a.id, a.lat, a.long, responses[k].n).rows
             ELSE <<>>)

RECURSIVE SumOfRows(_)
SumOfRows(k) == IF k = 0 THEN 0 ELSE SumOfRows(k - 1) + responses[k].n

\* C1: when the remote call of a record fails with a connectivity failure, no
\* exception leaves the loop, the record contributes no rows, and the rows of
\* the other records, before and after it, are all in the accumulator, which
\* is then written out: in a campaign whose calls so far returned data or
\* failed to connect, nothing is raised and the accumulator is a table holding
\* exactly the rows of the data responses in call order.
C1_ConnectivityFailureSkipsOneRecord ==
    (/\ \A k \in DOMAIN responses :
            responses[k].kind \in {"data"} \cup ConnectivityFailures
     /\ exc # "ValueError")
    => /\ exc = "none"
       /\ nasa_df.kind = "DataFrame"
       /\ nasa_df.rows = RowsOfData(Len(responses))

\* C2: a response without the '-END HEADER-' marker, or with an empty segment
\* after it, leaves the running table unchanged and the loop goes on to the
\* next record without an error.
C2_NoDataLeavesTableUnchanged ==
    [][(/\ Len(responses') = Len(responses) + 1
        /\ responses'[Len(responses')].kind \in {"no_marker", "empty_segment"})
       => (/\ nasa_df' = nasa_df
           /\ pc' = "loop" /\ exc' = "none"
           /\ i' = i + 1)]_vars

\* C3: the combined table is append-only: each step leaves a table in the
\* accumulator, of which the table held before is a prefix.
C3_AppendOnly ==
    [][nasa_df'.kind = "DataFrame" /\ IsPrefix(nasa_df.rows, nasa_df'.rows)]_vars

\* the position, in the campaign's record sequence, of the record a row was
\* fetched for (latitudes are unique in Incidents)
RecordOf(row) == CHOOSE k \in 1..Len(Recs) : Recs[k].InitialLatitude = row.LAT

AllNonEmptyData ==
    \A k \in DOMAIN responses : responses[k].kind = "data" /\ responses[k].n >= 1

\* C4: when every fetch so far returned a non-empty table, the combined table
\* holds the rows of the records in iteration order, the rows of one record in
\* response order, and as many rows as the fetches returned together.
C4_OrderPreserved ==
    AllNonEmptyData =>
       /\ nasa_df.kind = "DataFrame"
       /\ Len(nasa_df.rows) = SumOfRows(Len(responses))
       /\ \A p \in DOMAIN nasa_df.rows :
             /\ \E k \in 1..Len(responses) : Recs[k].InitialLatitude = nasa_df.rows[p].LAT
             /\ nasa_df.rows[p].DY \in 1..responses[RecordOf(nasa_df.rows[p])].n
       /\ \A p, q \in DOMAIN nasa_df.rows :
             p < q =>
               \/ RecordOf(nasa_df.rows[p]) < RecordOf(nasa_df.rows[q])
               \/ /\ RecordOf(nasa_df.rows[p]) = RecordOf(nasa_df.rows[q])
                  /\ nasa_df.rows[p].DY < nasa_df.rows[q].DY

C4_Witness ==
    /\ campaign = "extended" /\ pc = "done"
    /\ Len(responses) = Len(df) /\ Len(df) >= 2
    /\ AllNonEmptyData
    /\ \E k \in DOMAIN responses : responses[k].n >= 2
    /\ files = <<nasa_df>>

\* C5: in every campaign each row of the combined table carries the latitude,
\* the longitude and the 'id' value of the record it was fetched for.
C5_RowsReferenceTheirIncident ==
    \A p \in DOMAIN nasa_df.rows :
       \E k \in 1..Len(Recs) :
          /\ Recs[k].InitialLatitude = nasa_df.rows[p].LAT
          /\ Recs[k].InitialLongitude = nasa_df.rows[p].LONG
          /\ Recs[k].id = nasa_df.rows[p].PID

\* the number of records the loop has started on
Started ==
    IF inflight # <<>> \/ (pc = "raised" /\ exc # "AttributeError") THEN i ELSE i - 1

\* C6: exactly one request is built and issued for each record the loop has
\* started on, in input order, whatever the record's timestamps are, missing
\* ones included.
C6_OneRequestPerRecord ==
    /\ Len(requests) = Started
    /\ \A k \in DOMAIN requests :
          /\ requests[k].latitude = Recs[k].InitialLatitude
          /\ requests[k].longitude = Recs[k].InitialLongitude

Range(s) == { s[k] : k \in DOMAIN s }

Eligible(r) ==
    /\ ~r.DailyAcres.isnan /\ r.DailyAcres.val > 10
    /\ ~r.ControlDateTime.isnat /\ ~r.FireDiscoveryDateTime.isnat
    /\ HourNumber(r.ControlDateTime) - HourNumber(r.FireDiscoveryDateTime) > 24

\* C7: the filtered subset is exactly the records with DailyAcres > 1 and
\* control - discovery > 1 day, in input order; a record with a missing
\* timestamp is left out without an error; filtering again changes nothing.
C7_FilterExact ==
    (campaign # "basic" /\ pc # "filter") =>
       /\ \A r \in Range(filtered_df) : r \in Range(df) /\ Eligible(r)
       /\ \A r \in Range(df) : Eligible(r) => r \in Range(filtered_df)
       /\ \A p, q \in DOMAIN filtered_df :
             p < q => filtered_df[p].index < filtered_df[q].index
       /\ filter_fires(filtered_df) = filtered_df

C7_Witness ==
    /\ campaign # "basic" /\ pc = "loop"
    /\ Len(filtered_df) = 1
    /\ \E r \in Range(df) :
          /\ ~r.DailyAcres.isnan /\ r.DailyAcres.val > 10
          /\ ~r.ControlDateTime.isnat /\ ~r.FireDiscoveryDateTime.isnat
          /\ HourNumber(r.ControlDateTime) - HourNumber(r.FireDiscoveryDateTime) = 24
          /\ r \notin Range(filtered_df)

\* C8: each historical request starts at the discovery date minus 6 calendar
\* months (the day clipped to the month reached, between 181 and 184 days
\* back, never 180), ends at the discovery date, renders both as the year
\* alone, and never starts after it ends.
C8_HistoricalWindow ==
    campaign = "historical" =>
       \A k \in DOMAIN requests :
          LET D == Recs[k].FireDiscoveryDateTime
              S == requests[k].start_date
          IN  /\ requests[k].end_date = D
              /\ (D.y * 12 + D.m) - (S.y * 12 + S.m) = 6
              /\ S.d = Min(D.d, DaysInMonth(S.y, S.m))
              /\ S.h = D.h
              /\ DayNumber(D) - DayNumber(S) \in 181..184
              /\ requests[k].start = S.y
              /\ requests[k].end = D.y
              /\ HourNumber(S) <= HourNumber(D)

C8_Witness ==
    /\ campaign = "historical"
    /\ \E k \in DOMAIN requests :
          /\ Recs[k].FireDiscoveryDateTime = TS(2021, 3, 31, 8)
          /\ requests[k].start_date = TS(2020, 9, 30, 8)
          /\ requests[k].start = 2020 /\ requests[k].end = 2021

(***************************************************************************)
(* Properties of the merging notebook                                      *)
(***************************************************************************)
HasRow(table, column, value) ==
    \E k \in DOMAIN table.rows : table.rows[k][column] = value

\* a row of the filtered merge is joined from a row of each source table
FilteredRowMatched(r) ==
    /\ {"id", "UniqueFireIdentifier", "fire_id_x", "fire_id_y"} \subseteq DOMAIN r
    /\ \E k \in DOMAIN historical_precip.rows :
          /\ historical_precip.rows[k]["id"] = r["id"]
          /\ historical_precip.rows[k]["UniqueFireIdentifier"] = r["UniqueFireIdentifier"]
    /\ \E k \in DOMAIN wildfires.rows :
          /\ wildfires.rows[k]["UniqueFireIdentifier"] = r["UniqueFireIdentifier"]
          /\ wildfires.rows[k]["fire_id"] = r["fire_id_x"]
    /\ HasRow(weather, "id", r["id"])
    /\ HasRow(landcover, "fire_id", r["id"])
    /\ r["fire_id_y"] = r["id"]

\* a row of the all-fires merge is joined from a row of each source table
AllFiresRowMatched(r) ==
    /\ {"id", "UniqueFireIdentifier", "fire_id_x", "fire_id_y"} \subseteq DOMAIN r
    /\ \E k \in DOMAIN wildfires.rows :
          /\ wildfires.rows[k]["UniqueFireIdentifier"] = r["UniqueFireIdentifier"]
          /\ wildfires.rows[k]["fire_id"] = r["id"]
    /\ r["fire_id_x"] = r["id"]
    /\ HasRow(weather, "id", r["id"])
    /\ HasRow(landcover, "fire_id", r["id"])
    /\ r["fire_id_y"] = r["id"]

C10_TolerantDrop ==
    [][/\ mpc = "drop" =>
            /\ mpc' = "set_index"
            /\ master_dataset'.columns = data2.columns \ cols
       /\ mpc = "drop_allfires" =>
            /\ mpc' = "set_index_allfires"
            /\ master_dataset_allfires'.columns = data_2.columns \ cols]_vars

\* C11: both exported master tables are keyed by the incident's numeric
\* identifier: each written row has a cell in the id column, the id of the
\* incident it was joined from.
C11_ExportKeyedById ==
    \A f \in DOMAIN exported :
       \A k \in DOMAIN exported[f].rows :
          /\ "id" \in exported[f].header
          /\ "id" \in DOMAIN exported[f].rows[k]

\* C12: no remote call blocks indefinitely: every call that was issued
\* eventually ends, with a response or as a connectivity failure.
C12_EveryCallEnds == (inflight # <<>>) ~> (inflight = <<>>)

\* nothing is written while a record is unprocessed or a call is outstanding,
\* nothing is written twice, and at most one call is outstanding
WriteAfterLastRecord ==
    /\ Len(files) <= 1
    /\ files # <<>> =>
          /\ i > Len(Recs) /\ inflight = <<>>
          /\ Len(responses) = Len(Recs)
    /\ Len(inflight) <= 1

\* the request of the last record has completed and the cells have run
LoopExhausted == i > Len(Recs) /\ pc \in {"done", "raised"}

\* C13: the combined table of a campaign is written exactly once, after the
\* request of the last record has completed, never while a record is
\* unprocessed, and at most one remote call is outstanding at any time.
C13_WrittenOnceAfterLastRecord ==
    /\ WriteAfterLastRecord
    /\ LoopExhausted => Len(files) = 1

\* C14: a response that has the marker but whose segment after it does not
\* parse as a table skips that record alone: the running table is unchanged,
\* no error leaves the loop and the loop goes on to the next record.
C14_MalformedSkipsOneRecord ==
    [][(/\ Len(responses') = Len(responses) + 1
        /\ responses'[Len(responses')].kind = "malformed")
       => (/\ nasa_df' = nasa_df
           /\ pc' = "loop" /\ exc' = "none"
           /\ i' = i + 1)]_vars

====
